---- MODULE Spec2Model ----
(***************************************************************************)
(* Model of SpectroscoPy/atomic/electronConfiguration.py: the subshell and *)
(* electron-configuration value types and their notation codec, and of     *)
(* nistIonEnergyQuery of SpectroscoPy/atomic/nist/nistIonizationQuery.py.  *)
(*                                                                         *)
(* A Python string is a sequence of one-character tokens.  The superscript *)
(* numerals U+2070.. of superNums are written "sup0" .. "sup9".            *)
(* A Python value is a record tagged by `kind`; None is [kind |-> "None"]. *)
(* A call yields [exc |-> e, val |-> v]: exc = "none" when it returns v.   *)
(* The four ValueError raise sites of SubshellConfiguration.__init__ are   *)
(* told apart by the error of the taxonomy they stand for.                 *)
(***************************************************************************)
EXTENDS Integers, Sequences, FiniteSets, TLC

\* ---- bounds of the model ------------------------------------------------
\* largest principal quantum number offered to SubshellConfiguration()
MaxPrincipal == 22
\* largest principal quantum number of the subshells put into configurations
MaxCfgPrincipal == 2
\* longest list handed to ElectronConfiguration()
MaxSubshells == 3
\* longest token handed to SubshellConfiguration.str2obj
MaxTokenLen == 4
\* largest index, in absolute value, looked up in the notation tables
MaxIndex == 23
\* longest ionization-energy entry of a row answered to nistIonEnergyQuery
MaxTextLen == 4

VARIABLES op, arg, sub, cfg, term, level, ret, exc

vars == <<op, arg, sub, cfg, term, level, ret, exc>>

\* ---- Python values --------------------------------------------------------
None == [kind |-> "None"]
PyStr(chars) == [kind |-> "str", chars |-> chars]
PyBool(b) == [kind |-> "bool", val |-> b]
PyInt(i) == [kind |-> "int", val |-> i]

Return(v) == [exc |-> "none", val |-> v]
Raise(e) == [exc |-> e, val |-> None]

\* ---- str(int) and str.translate ------------------------------------------
decimal == <<"0", "1", "2", "3", "4", "5", "6", "7", "8", "9">>
superscript == <<"sup0", "sup1", "sup2", "sup3", "sup4",
                 "sup5", "sup6", "sup7", "sup8", "sup9">>
subscript == <<"sub0", "sub1", "sub2", "sub3", "sub4",
               "sub5", "sub6", "sub7", "sub8", "sub9">>

Range(s) == {s[i] : i \in 1..Len(s)}
IndexOf(s, c) == CHOOSE i \in 1..Len(s) : s[i] = c

\* str.maketrans("0123456789", <superscripts>)
superNums == [c \in Range(decimal) |-> superscript[IndexOf(decimal, c)]]
\* str.maketrans("0123456789", <subscripts>)
subNums == [c \in Range(decimal) |-> subscript[IndexOf(decimal, c)]]

RECURSIVE digits(_)
digits(i) ==
    IF i < 10 THEN <<decimal[i + 1]>>
    ELSE digits(i \div 10) \o <<decimal[(i % 10) + 1]>>

\* str(i) of a Python int
str(i) == IF i < 0 THEN <<"-">> \o digits(-i) ELSE digits(i)

\* s.translate(table): mapped characters are replaced, the others kept
translate(s, table) ==
    [i \in 1..Len(s) |-> IF s[i] \in DOMAIN table THEN table[s[i]] ELSE s[i]]

\* ---- notation tables ------------------------------------------------------
symbols == <<"s", "p", "d", "f", "g", "h", "i", "k", "l", "m", "n",
             "o", "q", "r", "t", "u", "v", "w", "x", "y", "z">>

\* series[key] on a column indexed by letters: a str key is looked up among
\* the labels (KeyError when absent); an int key is not a label and falls
\* back to the position, counted from the end when negative (IndexError
\* beyond the rows)
series_getitem(index, data, key) ==
    IF key.kind = "str"
    THEN IF Len(key.chars) = 1 /\ key.chars[1] \in Range(index)
         THEN Return(data[IndexOf(index, key.chars[1])])
         ELSE Raise("KeyError")
    ELSE IF key.val \in 0..(Len(index) - 1) THEN Return(data[key.val + 1])
    ELSE IF key.val \in (-Len(index))..(-1)
         THEN Return(data[key.val + Len(index) + 1])
    ELSE Raise("IndexError")

\* subshellsDf['sym'][aziNum]: positional lookup in the 21-row column
subshellsDf_sym(aziNum) ==
    series_getitem(symbols, symbols, PyInt(aziNum))

\* azis = np.arange(0, len(symbols))
azis == [i \in 1..Len(symbols) |-> PyInt(i - 1)]

\* subshellsDf['l'][key]
subshellsDf_l(key) == series_getitem(symbols, azis, key)

xrayNotation == <<"K", "L", "M", "N", "O", "P", "Q", "R", "S", "T", "U",
                  "V", "W", "X", "Y", "Z">>

\* principals = np.arange(0, len(xrayNotation)) + 1
principals == [i \in 1..Len(xrayNotation) |-> PyInt(i)]

\* xrayShellsDf['n'][key]
xrayShellsDf_n(key) == series_getitem(xrayNotation, principals, key)

\* xrayNotation[i] on the Python list: position i, counted from the end when
\* negative
list_getitem(list, i) ==
    IF i \in 0..(Len(list) - 1) THEN Return(list[i + 1])
    ELSE IF i \in (-Len(list))..(-1) THEN Return(list[i + Len(list) + 1])
    ELSE Raise("IndexError")

\* the shell letter of principal number n: principals puts n at position n - 1
xrayNotation_at(n) == list_getitem(xrayNotation, n - 1)

\* ---- SubshellConfiguration ------------------------------------------------
SubshellObject(n, l, e) ==
    [kind |-> "SubshellConfiguration", principal |-> n, aziNum |-> l,
     electrons |-> e]

\* existsSubshell with the bound taken as l <= n
existsSubshell_offByOne(principal, aziNum) == aziNum <= principal

\* existsSubshell: TRUE when it returns, FALSE when it raises
existsSubshell(principal, aziNum) == aziNum <= (principal - 1)

subshellElectrons(aziNum) == 2 * (2 * aziNum + 1)

\* the constructor without the test of the electron count
SubshellConfiguration_init_noCapacity(principalNum, aziNum, electronsNum) ==
    IF ~(principalNum >= 1) THEN Raise("InvalidQuantumNumber")
    ELSE IF ~(aziNum >= 0) THEN Raise("InvalidQuantumNumber")
    ELSE IF ~existsSubshell(principalNum, aziNum)
         THEN Raise("InvalidQuantumNumber")
    ELSE Return(SubshellObject(principalNum, aziNum, electronsNum))

SubshellConfiguration_init(principalNum, aziNum, electronsNum) ==
    IF ~(principalNum >= 1) THEN Raise("InvalidQuantumNumber")
    ELSE IF ~(aziNum >= 0) THEN Raise("InvalidQuantumNumber")
    ELSE IF ~existsSubshell(principalNum, aziNum)
         THEN Raise("InvalidQuantumNumber")
    ELSE IF electronsNum > subshellElectrons(aziNum)
         THEN Raise("OccupancyExceeded")
    ELSE Return(SubshellObject(principalNum, aziNum, electronsNum))

\* __str__ with the letter looked up one row further down the table
SubshellConfiguration_str_rowOff(self) ==
    LET principalSym == str(self.principal)
        aziSym == subshellsDf_sym(self.aziNum + 1)
        electronsSym == translate(str(self.electrons), superNums)
    IN  IF aziSym.exc # "none" THEN Raise(aziSym.exc)
        ELSE Return(PyStr(principalSym \o <<aziSym.val>> \o electronsSym))

SubshellConfiguration_str(self) ==
    LET principalSym == str(self.principal)
        aziSym == subshellsDf_sym(self.aziNum)
        electronsSym == translate(str(self.electrons), superNums)
    IN  IF aziSym.exc # "none" THEN Raise(aziSym.exc)
        ELSE Return(PyStr(principalSym \o <<aziSym.val>> \o electronsSym))

\* the comparison without electronsEq
SubshellConfiguration_eq_noElectrons(self, other) ==
    /\ self.principal = other.principal
    /\ self.aziNum = other.aziNum

SubshellConfiguration_eq(self, other) ==
    /\ self.principal = other.principal
    /\ self.aziNum = other.aziNum
    /\ self.electrons = other.electrons

\* self == other: the isinstance test, then the comparison
SubshellConfiguration_eq_call(self, other) ==
    IF other.kind # "SubshellConfiguration" THEN Raise("ValueError")
    ELSE Return(PyBool(SubshellConfiguration_eq(self, other)))

\* -- SubshellConfiguration.str2obj: the source declares it and lists its steps
\* (split, validate, build) but gives the assignment no right-hand side, so
\* the parser follows the token grammar <digits><subshell letter><digits>,
\* the count being accepted in plain or in superscript digits.
\* number of leading characters of s that lie in set
RECURSIVE leading(_, _)
leading(s, set) ==
    IF Len(s) = 0 \/ s[1] \notin set THEN 0
    ELSE 1 + leading(Tail(s), set)

\* int() of a digit string written in the given ten-character alphabet
RECURSIVE value(_, _)
value(s, alphabet) ==
    IF Len(s) = 0 THEN 0
    ELSE 10 * value(SubSeq(s, 1, Len(s) - 1), alphabet)
         + (IndexOf(alphabet, s[Len(s)]) - 1)

SubshellConfiguration_str2obj(configStr) ==
    LET k == leading(configStr, Range(decimal))
        count == SubSeq(configStr, k + 2, Len(configStr))
        alphabet == IF count[1] \in Range(decimal) THEN decimal
                    ELSE superscript
    IN  IF k = 0 \/ Len(configStr) < k + 2
        THEN Raise("MalformedNotation")
        ELSE IF configStr[k + 1] \notin Range(symbols)
        THEN Raise("MalformedNotation")
        ELSE IF \E i \in 1..Len(count) : count[i] \notin Range(alphabet)
        THEN Raise("MalformedNotation")
        ELSE SubshellConfiguration_init(
                 value(SubSeq(configStr, 1, k), decimal),
                 IndexOf(symbols, configStr[k + 1]) - 1,
                 value(count, alphabet))

\* ---- TermSymbol -----------------------------------------------------------
\* TermSymbol() takes no argument and sets no attribute
TermSymbolObject == [kind |-> "TermSymbol"]

TermSymbol_init == Return(TermSymbolObject)

\* __str__ has a docstring and comments and no statement: it returns None
TermSymbol_str(self) == Return(None)

\* the class defines __init__ and __str__ only: looking up fromSubshell on it
\* raises AttributeError
TermSymbol_fromSubshell(subshell) == Raise("AttributeError")

\* ---- the subshell specification -------------------------------------------
Init ==
    /\ op = "start"
    /\ arg = None
    /\ sub = None
    /\ cfg = None
    /\ term = None
    /\ level = None
    /\ ret = None
    /\ exc = "none"

PrincipalInputs == 0..MaxPrincipal
AziInputs == (-1)..MaxPrincipal
ElectronInputs(l) == (-1)..(subshellElectrons(IF l < 0 THEN 0 ELSE l) + 1)

\* SubshellConfiguration(principalNum, aziNum, electronsNum); each behaviour
\* follows one constructed value, so the constructor is the first call
NewSubshell ==
    /\ op = "start"
    /\ \E n \in PrincipalInputs, l \in AziInputs :
      \E e \in ElectronInputs(l) :
        LET r == SubshellConfiguration_init(n, l, e)
        IN  /\ op' = "SubshellConfiguration"
            /\ arg' = [kind |-> "args", n |-> n, l |-> l, e |-> e]
            /\ sub' = r.val
            /\ ret' = r.val
            /\ exc' = r.exc
            /\ UNCHANGED <<cfg, term, level>>

\* str(sub)
SubshellStr ==
    /\ sub.kind = "SubshellConfiguration"
    /\ op \in {"SubshellConfiguration", "subshellElectrons"}
    /\ LET r == SubshellConfiguration_str(sub)
       IN  /\ op' = "SubshellConfiguration.__str__"
           /\ arg' = sub
           /\ ret' = r.val
           /\ exc' = r.exc
    /\ UNCHANGED <<sub, cfg, term, level>>

\* sub.subshellElectrons() keeping its result in self.electrons
SubshellMaxElectrons_storesResult ==
    /\ sub.kind = "SubshellConfiguration"
    /\ op = "SubshellConfiguration"
    /\ op' = "subshellElectrons"
    /\ arg' = sub
    /\ ret' = PyInt(subshellElectrons(sub.aziNum))
    /\ exc' = "none"
    /\ sub' = [sub EXCEPT !.electrons = subshellElectrons(sub.aziNum)]
    /\ UNCHANGED <<cfg, term, level>>

\* sub.subshellElectrons()
SubshellMaxElectrons ==
    /\ sub.kind = "SubshellConfiguration"
    /\ op = "SubshellConfiguration"
    /\ op' = "subshellElectrons"
    /\ arg' = sub
    /\ ret' = PyInt(subshellElectrons(sub.aziNum))
    /\ exc' = "none"
    /\ UNCHANGED <<sub, cfg, term, level>>

\* SubshellConfiguration.str2obj(str(sub))
SubshellStr2obj ==
    /\ op = "SubshellConfiguration.__str__"
    /\ ret.kind = "str"
    /\ LET r == SubshellConfiguration_str2obj(ret.chars)
       IN  /\ op' = "SubshellConfiguration.str2obj"
           /\ arg' = ret
           /\ ret' = r.val
           /\ exc' = r.exc
    /\ UNCHANGED <<sub, cfg, term, level>>

\* the subshells sub is compared with: every constructible one whose n, l
\* and e each equal those of sub or exceed them by one
SubshellEqOperands(self) ==
    {r.val : r \in {q \in {SubshellConfiguration_init(
                                 self.principal + d[1], self.aziNum + d[2],
                                 self.electrons + d[3]) :
                             d \in {0, 1} \X {0, 1} \X {0, 1}} :
                      q.exc = "none"}}

\* sub == other, other == sub, and sub == <a value of another type>
SubshellEq ==
    /\ op = "SubshellConfiguration"
    /\ sub.kind = "SubshellConfiguration"
    /\ \E other \in SubshellEqOperands(sub)
                       \cup {None, PyStr(<<"1", "s", "sup1">>)} :
         \E swap \in IF other.kind = "SubshellConfiguration"
                     THEN BOOLEAN ELSE {FALSE} :
           LET left == IF swap THEN other ELSE sub
               right == IF swap THEN sub ELSE other
               r == SubshellConfiguration_eq_call(left, right)
           IN  /\ op' = "SubshellConfiguration.__eq__"
               /\ arg' = [kind |-> "operands", self |-> left, other |-> right]
               /\ ret' = r.val
               /\ exc' = r.exc
    /\ UNCHANGED <<sub, cfg, term, level>>

\* the characters tokens are made of: digits, subshell letters, a letter
\* outside the table, superscript digits and a sign
TokenChars == {"0", "1", "2", "7", "s", "p", "a", "sup2", "sup7", "-"}

Tokens == UNION {[1..len -> TokenChars] : len \in 0..MaxTokenLen}

\* SubshellConfiguration.str2obj(token)
SubshellParseToken ==
    /\ op = "start"
    /\ \E token \in Tokens :
         LET r == SubshellConfiguration_str2obj(token)
         IN  /\ op' = "SubshellConfiguration.str2obj"
             /\ arg' = PyStr(token)
             /\ ret' = r.val
             /\ exc' = r.exc
    /\ UNCHANGED <<sub, cfg, term, level>>

\* TermSymbol.fromSubshell(sub)
TermFromSubshell ==
    /\ op = "SubshellConfiguration"
    /\ sub.kind = "SubshellConfiguration"
    /\ LET r == TermSymbol_fromSubshell(sub)
       IN  /\ op' = "TermSymbol.fromSubshell"
           /\ arg' = sub
           /\ ret' = r.val
           /\ exc' = r.exc
    /\ UNCHANGED <<sub, cfg, term, level>>

NextSubshell ==
    \/ TermFromSubshell
    \/ SubshellParseToken
    \/ SubshellEq
    \/ NewSubshell
    \/ SubshellStr
    \/ SubshellMaxElectrons
    \/ SubshellStr2obj

SpecSubshell == Init /\ [][NextSubshell]_vars

\* ---- claims about SubshellConfiguration ------------------------------------
\* the arguments of the constructor call satisfy n >= 1 and 0 <= l <= n-1
ValidQuantumNumbers(a) == a.n >= 1 /\ a.l >= 0 /\ a.l <= a.n - 1

\* C1: SubshellConfiguration(n, l, e) with n < 1, or l < 0, or l > n-1 fails
\* with InvalidQuantumNumber whatever e is, and produces no instance.
C1_InvalidQuantumNumber ==
    (op = "SubshellConfiguration" /\ ~ValidQuantumNumbers(arg))
        => (exc = "InvalidQuantumNumber" /\ ret = None /\ sub = None)

C1_Witness ==
    /\ op = "SubshellConfiguration"
    /\ arg.n = 1 /\ arg.l = 1 /\ arg.e = 0
    /\ exc = "InvalidQuantumNumber"
    /\ sub = None

\* C2: with valid n and l the constructor fails with OccupancyExceeded
\* whenever e > 2(2l+1) or e < 0, succeeds for 0 <= e <= 2(2l+1), and the
\* maximum capacity of the result is 2(2l+1).
C2_OccupancyChecked ==
    /\ (op = "SubshellConfiguration" /\ ValidQuantumNumbers(arg)) =>
          IF arg.e > 2 * (2 * arg.l + 1) \/ arg.e < 0
          THEN exc = "OccupancyExceeded" /\ ret = None
          ELSE exc = "none" /\ ret = SubshellObject(arg.n, arg.l, arg.e)
    /\ op = "subshellElectrons" =>
          (exc = "none" /\ ret = PyInt(2 * (2 * sub.aziNum + 1)))

\* the part of C2 the constructor does meet: counts above the capacity are
\* rejected and counts from 0 to the capacity accepted
OccupancyUpperBoundChecked ==
    (op = "SubshellConfiguration" /\ ValidQuantumNumbers(arg) /\ arg.e >= 0) =>
          IF arg.e > 2 * (2 * arg.l + 1)
          THEN exc = "OccupancyExceeded" /\ ret = None
          ELSE exc = "none" /\ ret = SubshellObject(arg.n, arg.l, arg.e)

\* n, l and e of a value lie in the ranges of the data model
ValidTriple(s) ==
    /\ s.kind = "SubshellConfiguration"
    /\ 1 <= s.principal
    /\ 0 <= s.aziNum /\ s.aziNum <= s.principal - 1
    /\ 0 <= s.electrons /\ s.electrons <= 2 * (2 * s.aziNum + 1)

\* str2obj(str(x)) returned a value equal to x
RoundTripped ==
    /\ exc = "none"
    /\ ret.kind = "SubshellConfiguration"
    /\ SubshellConfiguration_eq(ret, sub)

C6_Notation ==
    (op = "SubshellConfiguration.__str__" /\ exc = "none") =>
        LET s == ret.chars
            k == leading(s, Range(decimal))
            count == SubSeq(s, k + 2, Len(s))
        IN  /\ k >= 1 /\ Len(s) >= k + 2
            /\ (s[1] # "0" \/ k = 1)
            /\ value(SubSeq(s, 1, k), decimal) = sub.principal
            /\ s[k + 1] = symbols[sub.aziNum + 1]
            /\ \A i \in 1..Len(count) : count[i] \in Range(superscript)
            /\ (count[1] # "sup0" \/ Len(count) = 1)
            /\ value(count, superscript) = sub.electrons
            /\ (sub = SubshellObject(2, 1, 5) => s = <<"2", "p", "sup5">>)

\* the part of C6 that holds: the notation of every value with e >= 0
NotationOfNonNegative ==
    (op = "SubshellConfiguration.__str__" /\ sub.electrons < 0) \/ C6_Notation

\* ---- ElectronConfiguration ------------------------------------------------
\* -- ElectronConfiguration.__init__: the source lists the steps (conflict
\* test, dropping of empty subshells, ordering by n then l) but gives the
\* assignment of subshellsOrdered no right-hand side, so the steps follow
\* the specification.  The source does not fix the container of
\* self.subshells: the constructor's comment and __eq__ (.all()) take it to
\* be a numpy array, __bool__'s comment and empty() a list; `container`
\* carries either outcome.
Containers == {"list", "ndarray"}

ConfigurationObject(subshells, container) ==
    [kind |-> "ElectronConfiguration", subshells |-> subshells,
     container |-> container]

sameSubshell(a, b) == a.principal = b.principal /\ a.aziNum = b.aziNum

conflicting(subshells) ==
    \E i, j \in 1..Len(subshells) :
        i < j /\ sameSubshell(subshells[i], subshells[j])

dropEmpty(subshells) == SelectSeq(subshells, LAMBDA x : x.electrons # 0)

precedes(a, b) ==
    \/ a.principal < b.principal
    \/ (a.principal = b.principal /\ a.aziNum < b.aziNum)

RECURSIVE organize(_)
organize(subshells) ==
    IF Len(subshells) = 0 THEN <<>>
    ELSE LET rest == organize(Tail(subshells))
             x == Head(subshells)
             k == Cardinality({i \in 1..Len(rest) : precedes(rest[i], x)})
         IN  SubSeq(rest, 1, k) \o <<x>> \o SubSeq(rest, k + 1, Len(rest))

\* the constructor with the empty subshells dropped before the conflict test
ElectronConfiguration_init_dropsFirst(subshells, container) ==
    IF conflicting(dropEmpty(subshells)) THEN Raise("ConflictingSubshell")
    ELSE Return(ConfigurationObject(organize(dropEmpty(subshells)),
                                    container))

ElectronConfiguration_init(subshells, container) ==
    IF conflicting(subshells) THEN Raise("ConflictingSubshell")
    ELSE Return(ConfigurationObject(organize(dropEmpty(subshells)),
                                    container))

\* ElectronConfiguration.empty(): ElectronConfiguration([])
ElectronConfiguration_empty(container) ==
    ElectronConfiguration_init(<<>>, container)

\* __str__ has a docstring and no statement: it returns None
ElectronConfiguration_str(self) == Return(None)

\* str2obj has the one statement `return configObj`, a name never bound
ElectronConfiguration_str2obj(text) == Raise("NameError")

\* bool(self.subshells): a list is true when non-empty; a numpy array of no
\* element is false, of one element has the truth of the element (an object
\* without __bool__ or __len__, so true), and of more raises ValueError
ElectronConfiguration_bool(self) ==
    IF self.container = "list" THEN Return(PyBool(Len(self.subshells) > 0))
    ELSE IF Len(self.subshells) = 0 THEN Return(PyBool(FALSE))
    ELSE IF Len(self.subshells) = 1 THEN Return(PyBool(TRUE))
    ELSE Raise("ValueError")

\* subshell(principalNum, aziNum) has the one statement `return`
ElectronConfiguration_subshell(self, principalNum, aziNum) == Return(None)

\* (other.subshells == self.subshells).all() after the isinstance test; the
\* set of outcomes the call can have.  On two lists == yields a bool, which
\* has no .all().  On two arrays == compares element by element when the
\* lengths agree, broadcasts an array of one element against the other, and
\* otherwise yields the bool False (AttributeError on .all()) or raises
\* ValueError, depending on the numpy release.
ElectronConfiguration_eq(self, other) ==
    IF other.kind # "ElectronConfiguration" THEN {Raise("ValueError")}
    ELSE IF self.container = "list" THEN {Raise("AttributeError")}
    ELSE LET a == other.subshells
             b == self.subshells
         IN  IF Len(a) = Len(b)
             THEN {Return(PyBool(\A i \in 1..Len(a) :
                                    SubshellConfiguration_eq(a[i], b[i])))}
             ELSE IF Len(a) = 1
             THEN {Return(PyBool(\A i \in 1..Len(b) :
                                    SubshellConfiguration_eq(a[1], b[i])))}
             ELSE IF Len(b) = 1
             THEN {Return(PyBool(\A i \in 1..Len(a) :
                                    SubshellConfiguration_eq(a[i], b[1])))}
             ELSE {Raise("AttributeError"), Raise("ValueError")}

\* ---- EnergyLevel ----------------------------------------------------------
EnergyLevelObject(electronConfiguration, termSymbol) ==
    [kind |-> "EnergyLevel", electronConfiguration |-> electronConfiguration,
     termSymbol |-> termSymbol]

\* __init__ stores the two arguments as given
EnergyLevel_init(electronConfiguration, termSymbol) ==
    Return(EnergyLevelObject(electronConfiguration, termSymbol))

\* a + b on Python values: concatenation of two str, TypeError when the left
\* operand is None
add(a, b) ==
    IF a.kind = "str" /\ b.kind = "str" THEN Return(PyStr(a.chars \o b.chars))
    ELSE Raise("TypeError")

\* configStr + ' ' + termStr, evaluated left to right
EnergyLevel_str(self) ==
    LET configStr == ElectronConfiguration_str(self.electronConfiguration)
        termStr == TermSymbol_str(self.termSymbol)
        left == add(configStr.val, PyStr(<<" ">>))
    IN  IF left.exc # "none" THEN left ELSE add(left.val, termStr.val)

EnergyLevel_configuration(self) == Return(self.electronConfiguration)

EnergyLevel_term(self) == Return(self.termSymbol)

\* ---- the configuration specification --------------------------------------
\* electron counts of the subshells put into configurations: the unchecked
\* negative count, empty, partly filled, one short of full, and full
ConfigElectronInputs(l) ==
    {-1, 0, 2, subshellElectrons(l) - 1, subshellElectrons(l)}

\* the SubshellConfiguration values the constructor yields within the bound
SubshellObjects ==
    UNION {UNION {{SubshellConfiguration_init(n, l, e).val :
                      e \in {x \in ConfigElectronInputs(l) :
                               SubshellConfiguration_init(n, l, x).exc = "none"}} :
                  l \in 0..(n - 1)} :
           n \in 1..MaxCfgPrincipal}

SubshellLists ==
    UNION {[1..len -> SubshellObjects] : len \in 0..MaxSubshells}

Constructors == {"ElectronConfiguration", "ElectronConfiguration.empty"}

\* ElectronConfiguration(subshells)
NewConfiguration ==
    /\ op = "start"
    /\ \E subshells \in SubshellLists, container \in Containers :
        LET r == ElectronConfiguration_init(subshells, container)
        IN  /\ op' = "ElectronConfiguration"
            /\ arg' = [kind |-> "list", items |-> subshells]
            /\ cfg' = r.val
            /\ ret' = r.val
            /\ exc' = r.exc
    /\ UNCHANGED <<sub, term, level>>

\* ElectronConfiguration.empty()
EmptyConfiguration ==
    /\ op = "start"
    /\ \E container \in Containers :
        LET r == ElectronConfiguration_empty(container)
        IN  /\ op' = "ElectronConfiguration.empty"
            /\ arg' = None
            /\ cfg' = r.val
            /\ ret' = r.val
            /\ exc' = r.exc
    /\ UNCHANGED <<sub, term, level>>

\* cfg.__str__()
ConfigStr ==
    /\ op \in Constructors
    /\ cfg.kind = "ElectronConfiguration"
    /\ LET r == ElectronConfiguration_str(cfg)
       IN  /\ op' = "ElectronConfiguration.__str__"
           /\ arg' = cfg
           /\ ret' = r.val
           /\ exc' = r.exc
    /\ UNCHANGED <<sub, cfg, term, level>>

\* ElectronConfiguration.str2obj(cfg.__str__())
ConfigStr2obj ==
    /\ op = "ElectronConfiguration.__str__"
    /\ exc = "none"
    /\ LET r == ElectronConfiguration_str2obj(ret)
       IN  /\ op' = "ElectronConfiguration.str2obj"
           /\ arg' = ret
           /\ ret' = r.val
           /\ exc' = r.exc
    /\ UNCHANGED <<sub, cfg, term, level>>

\* bool(cfg)
ConfigBool ==
    /\ op \in Constructors
    /\ cfg.kind = "ElectronConfiguration"
    /\ LET r == ElectronConfiguration_bool(cfg)
       IN  /\ op' = "ElectronConfiguration.__bool__"
           /\ arg' = cfg
           /\ ret' = r.val
           /\ exc' = r.exc
    /\ UNCHANGED <<sub, cfg, term, level>>

\* cfg.subshell(principalNum, aziNum)
ConfigSubshell ==
    /\ op \in Constructors
    /\ cfg.kind = "ElectronConfiguration"
    /\ \E n \in 1..MaxCfgPrincipal :
         \E l \in 0..(n - 1) :
           LET r == ElectronConfiguration_subshell(cfg, n, l)
           IN  /\ op' = "ElectronConfiguration.subshell"
               /\ arg' = [kind |-> "args", n |-> n, l |-> l]
               /\ ret' = r.val
               /\ exc' = r.exc
    /\ UNCHANGED <<sub, cfg, term, level>>

\* the configurations cfg is compared with: cfg's own sequence, its slices,
\* and its sequence with one entry replaced by another count of that subshell,
\* each built by the constructor in the same container
EqOperands(self) ==
    LET s == self.subshells
        slices == {SubSeq(s, i, j) : i \in 1..(Len(s) + 1), j \in 0..Len(s)}
        replaced == UNION {{[s EXCEPT ![i] = x] :
                               x \in {y \in SubshellObjects :
                                        sameSubshell(y, s[i])
                                          /\ y.electrons # 0}} :
                           i \in 1..Len(s)}
    IN  {ElectronConfiguration_init(t, self.container).val :
            t \in slices \cup replaced \cup {s}}

\* cfg == other
ConfigEq ==
    /\ op \in Constructors
    /\ cfg.kind = "ElectronConfiguration"
    /\ \E other \in EqOperands(cfg) \cup {None} :
         \E r \in ElectronConfiguration_eq(cfg, other) :
           /\ op' = "ElectronConfiguration.__eq__"
           /\ arg' = other
           /\ ret' = r.val
           /\ exc' = r.exc
    /\ UNCHANGED <<sub, cfg, term, level>>

\* notation texts: empty, one and two tokens in and out of canonical order,
\* a repeated subshell, and tokens with a leading, a trailing and an
\* in-between remainder, a missing count and a missing principal number
ConfigTexts ==
    { <<>>,
      <<"1", "s", "sup2">>,
      <<"1", "s", "sup2", "2", "s", "sup2">>,
      <<"2", "p", "sup5", "1", "s", "sup2">>,
      <<"1", "s", "sup2", "1", "s", "sup1">>,
      <<"2", "s", "sup0", "2", "s", "sup2">>,
      <<"1", "s", "sup2", "x">>,
      <<"x", "1", "s", "sup2">>,
      <<"1", "s", "sup2", "x", "2", "s", "sup1">>,
      <<"1", "s">>,
      <<"s", "sup2">> }

\* ElectronConfiguration.str2obj(text)
ConfigParseText ==
    /\ op = "start"
    /\ \E text \in ConfigTexts :
         LET r == ElectronConfiguration_str2obj(PyStr(text))
         IN  /\ op' = "ElectronConfiguration.str2obj"
             /\ arg' = PyStr(text)
             /\ ret' = r.val
             /\ exc' = r.exc
    /\ UNCHANGED <<sub, cfg, term, level>>

\* TermSymbol()
NewTermSymbol ==
    /\ op \in Constructors
    /\ exc = "none"
    /\ LET r == TermSymbol_init
       IN  /\ op' = "TermSymbol"
           /\ arg' = None
           /\ term' = r.val
           /\ ret' = r.val
           /\ exc' = r.exc
    /\ UNCHANGED <<sub, cfg, level>>

\* EnergyLevel(cfg, term)
NewEnergyLevel ==
    /\ op = "TermSymbol"
    /\ LET r == EnergyLevel_init(cfg, term)
       IN  /\ op' = "EnergyLevel"
           /\ arg' = [kind |-> "parts", electronConfiguration |-> cfg,
                      termSymbol |-> term]
           /\ level' = r.val
           /\ ret' = r.val
           /\ exc' = r.exc
    /\ UNCHANGED <<sub, cfg, term>>

\* str(level)
LevelStr ==
    /\ op = "EnergyLevel"
    /\ LET r == EnergyLevel_str(level)
       IN  /\ op' = "EnergyLevel.__str__"
           /\ arg' = level
           /\ ret' = r.val
           /\ exc' = r.exc
    /\ UNCHANGED <<sub, cfg, term, level>>

\* level.configuration()
LevelConfiguration ==
    /\ op = "EnergyLevel"
    /\ LET r == EnergyLevel_configuration(level)
       IN  /\ op' = "EnergyLevel.configuration"
           /\ arg' = level
           /\ ret' = r.val
           /\ exc' = r.exc
    /\ UNCHANGED <<sub, cfg, term, level>>

\* level.term()
LevelTerm ==
    /\ op = "EnergyLevel"
    /\ LET r == EnergyLevel_term(level)
       IN  /\ op' = "EnergyLevel.term"
           /\ arg' = level
           /\ ret' = r.val
           /\ exc' = r.exc
    /\ UNCHANGED <<sub, cfg, term, level>>

Next ==
    \/ NewTermSymbol
    \/ NewEnergyLevel
    \/ LevelStr
    \/ LevelConfiguration
    \/ LevelTerm
    \/ ConfigParseText
    \/ ConfigEq
    \/ NewConfiguration
    \/ EmptyConfiguration
    \/ ConfigStr
    \/ ConfigStr2obj
    \/ ConfigBool
    \/ ConfigSubshell

Spec == Init /\ [][Next]_vars

Canonical(stored, items) ==
    /\ Range(stored) = {x \in Range(items) : x.electrons > 0}
    /\ \A i \in 1..Len(stored) : stored[i].electrons # 0
    /\ \A i, j \in 1..Len(stored) :
         i < j => /\ ~sameSubshell(stored[i], stored[j])
                  /\ \/ stored[i].principal < stored[j].principal
                     \/ /\ stored[i].principal = stored[j].principal
                        /\ stored[i].aziNum < stored[j].aziNum

CanonicalOfNonNegative ==
    (op = "ElectronConfiguration" /\ ~conflicting(arg.items)
       /\ \A i \in 1..Len(arg.items) : arg.items[i].electrons >= 0)
        => (exc = "none" /\ Canonical(cfg.subshells, arg.items))

\* the notation of each entry in order, joined with no separator
RECURSIVE joined(_)
joined(subshells) ==
    IF Len(subshells) = 0 THEN <<>>
    ELSE SubshellConfiguration_str(Head(subshells)).val.chars
         \o joined(Tail(subshells))

\* C7: cfg.__str__() is the concatenation, with no separator, of each stored
\* entry's notation in canonical order; [2p5, 1s2] renders as 1s2 2p5.
C7_ConfigNotation ==
    op = "ElectronConfiguration.__str__" =>
        /\ exc = "none"
        /\ ret.kind = "str"
        /\ ret.chars = joined(cfg.subshells)
        /\ (cfg.subshells = <<SubshellObject(1, 0, 2), SubshellObject(2, 1, 5)>>
              => ret.chars = <<"1", "s", "sup2", "2", "p", "sup5">>)

\* C8: parsing a configuration's own rendered notation succeeds and
\* re-rendering the result gives the identical string.
C8_RenderParseRender ==
    op = "ElectronConfiguration.str2obj" =>
        /\ exc = "none"
        /\ ret.kind = "ElectronConfiguration"
        /\ arg.kind = "str"
        /\ joined(ret.subshells) = arg.chars

\* C9: isIonized(), the negation of bool(cfg), is true iff the stored sequence
\* is empty; empty() is ionized and its notation is the empty string.
C9_IsIonized ==
    /\ op = "ElectronConfiguration.__bool__" =>
         /\ exc = "none"
         /\ ret.kind = "bool"
         /\ (~ret.val) <=> (Len(cfg.subshells) = 0)
    /\ op = "ElectronConfiguration.empty" =>
         (exc = "none" /\ Len(cfg.subshells) = 0)
    /\ (op = "ElectronConfiguration.__str__" /\ Len(cfg.subshells) = 0) =>
         (exc = "none" /\ ret.kind = "str" /\ ret.chars = <<>>)

\* the part of C9 that holds: bool(cfg) of a list-held sequence, and of an
\* array-held sequence of at most one entry
IsIonizedOfListOrShort ==
    (op = "ElectronConfiguration.__bool__"
       /\ (cfg.container = "list" \/ Len(cfg.subshells) <= 1)) =>
         /\ exc = "none"
         /\ ret.kind = "bool"
         /\ (~ret.val) <=> (Len(cfg.subshells) = 0)

\* C10: cfg.subshell(n, l) never fails; it returns the stored entry with that
\* (n, l) when there is one and the absent result otherwise.
C10_SubshellAt ==
    op = "ElectronConfiguration.subshell" =>
        /\ exc = "none"
        /\ \A i \in 1..Len(cfg.subshells) :
             (cfg.subshells[i].principal = arg.n
                /\ cfg.subshells[i].aziNum = arg.l)
               => (ret.kind = "SubshellConfiguration"
                     /\ SubshellConfiguration_eq(ret, cfg.subshells[i]))
        /\ (\A i \in 1..Len(cfg.subshells) :
              ~(cfg.subshells[i].principal = arg.n
                  /\ cfg.subshells[i].aziNum = arg.l))
               => ret = None

\* the canonical sequences have the same length and are pairwise equal
SameSequence(a, b) ==
    /\ Len(a) = Len(b)
    /\ \A i \in 1..Len(a) :
         /\ a[i].principal = b[i].principal
         /\ a[i].aziNum = b[i].aziNum
         /\ a[i].electrons = b[i].electrons

\* C11: two configurations are equal iff their canonical sequences have the
\* same length and are pairwise equal; two empty configurations are equal.
C11_ConfigEquality ==
    (op = "ElectronConfiguration.__eq__" /\ arg.kind = "ElectronConfiguration")
        => /\ exc = "none"
           /\ ret.kind = "bool"
           /\ ret.val <=> SameSequence(cfg.subshells, arg.subshells)

\* the part of C11 that holds: arrays of the same length, or of two lengths
\* that broadcast other than 0 against 1, compare as the claim says
EqualityOfArrays ==
    (op = "ElectronConfiguration.__eq__" /\ arg.kind = "ElectronConfiguration"
       /\ cfg.container = "ndarray" /\ exc = "none"
       /\ Len(cfg.subshells) + Len(arg.subshells) # 1)
        => (ret.kind = "bool"
              /\ ret.val <=> SameSequence(cfg.subshells, arg.subshells))

\* C12: two SubshellConfigurations are equal iff their n, their l and their
\* electron counts are all equal, in either order of the operands and of a
\* value with itself; comparing with a value of another type is rejected.
C12_SubshellEquality ==
    op = "SubshellConfiguration.__eq__" =>
        IF arg.other.kind = "SubshellConfiguration"
        THEN /\ exc = "none"
             /\ ret.kind = "bool"
             /\ ret.val <=> (/\ arg.self.principal = arg.other.principal
                             /\ arg.self.aziNum = arg.other.aziNum
                             /\ arg.self.electrons = arg.other.electrons)
             /\ (arg.self = arg.other => ret.val)
        ELSE exc = "ValueError" /\ ret = None

\* two subshells that differ in the electron count alone compare unequal
C12_Witness ==
    /\ op = "SubshellConfiguration.__eq__"
    /\ arg.other.kind = "SubshellConfiguration"
    /\ arg.self = SubshellObject(2, 1, 5)
    /\ arg.other = SubshellObject(2, 1, 4)
    /\ exc = "none"
    /\ ret = PyBool(FALSE)

\* t has the shape <digits><subshell letter><digits>, its first k characters
\* being the principal number
TokenShape(t, k) ==
    /\ k >= 1 /\ k + 2 <= Len(t)
    /\ \A i \in 1..k : t[i] \in Range(decimal)
    /\ t[k + 1] \in Range(symbols)
    /\ \/ \A i \in (k + 2)..Len(t) : t[i] \in Range(decimal)
       \/ \A i \in (k + 2)..Len(t) : t[i] \in Range(superscript)

C13_WitnessMalformed ==
    /\ op = "SubshellConfiguration.str2obj"
    /\ arg.chars = <<"2", "a", "1">>
    /\ exc = "MalformedNotation"

\* text cut into consecutive <digits><letter><superscript digits> tokens:
\* ok is FALSE when some part of the text is left over
RECURSIVE Tokenized(_)
Tokenized(t) ==
    IF Len(t) = 0 THEN [ok |-> TRUE, toks |-> <<>>]
    ELSE LET k == leading(t, Range(decimal))
             c == leading(SubSeq(t, k + 2, Len(t)), Range(superscript))
         IN  IF k = 0 \/ Len(t) < k + 2 \/ c = 0 THEN [ok |-> FALSE, toks |-> <<>>]
             ELSE IF t[k + 1] \notin Range(symbols)
             THEN [ok |-> FALSE, toks |-> <<>>]
             ELSE LET rest == Tokenized(SubSeq(t, k + c + 2, Len(t)))
                  IN  [ok |-> rest.ok,
                       toks |-> <<SubSeq(t, 1, k + c + 1)>> \o rest.toks]

\* C14: ElectronConfiguration.str2obj(text) cuts text into consecutive tokens
\* and hands them to the constructor; it fails with MalformedNotation when
\* any part of text is left unparsed and with ConflictingSubshell when the
\* tokens repeat an (n, l) pair.
C14_ParseText ==
    (op = "ElectronConfiguration.str2obj" /\ arg.kind = "str") =>
        LET tk == Tokenized(arg.chars)
            parsed == [i \in 1..Len(tk.toks) |->
                          SubshellConfiguration_str2obj(tk.toks[i])]
            items == [i \in 1..Len(tk.toks) |-> parsed[i].val]
        IN  IF ~tk.ok THEN exc = "MalformedNotation"
            ELSE IF \E i \in 1..Len(parsed) : parsed[i].exc # "none"
            THEN exc \in {parsed[i].exc : i \in 1..Len(parsed)} \ {"none"}
            ELSE IF conflicting(items) THEN exc = "ConflictingSubshell"
            ELSE /\ exc = "none"
                 /\ ret.kind = "ElectronConfiguration"
                 /\ ret.subshells = organize(dropEmpty(items))

\* ---- claims about TermSymbol ------------------------------------------------
\* the unpaired electrons of a subshell: e up to half filling, then the holes
Unpaired(s) ==
    IF s.electrons <= 2 * s.aziNum + 1 THEN s.electrons
    ELSE 2 * (2 * s.aziNum + 1) - s.electrons

\* C15: TermSymbol.fromSubshell(sub) has multiplicity u + 1, with u = e when
\* e <= 2l+1 and u = 2(2l+1) - e otherwise; 2p5 gives u = 1, multiplicity 2.
C15_Multiplicity ==
    (op = "TermSymbol.fromSubshell" /\ ValidTriple(sub)) =>
        /\ exc = "none"
        /\ ret.kind = "TermSymbol"
        /\ ret.multiplicity = Unpaired(sub) + 1
        /\ ret.multiplicity \in 1..(2 * sub.aziNum + 2)
        /\ (sub = SubshellObject(2, 1, 5) => ret.multiplicity = 2)

\* C16: TermSymbol.fromSubshell(sub) has J = S = u/2 (held as 2J = u) when
\* l = 0 and an Unresolved marker, different from every computed J, when l > 0.
C16_TotalAngularMomentum ==
    (op = "TermSymbol.fromSubshell" /\ ValidTriple(sub)) =>
        /\ exc = "none"
        /\ ret.kind = "TermSymbol"
        /\ IF sub.aziNum = 0
           THEN ret.J = [kind |-> "computed", twice |-> Unpaired(sub)]
           ELSE ret.J = [kind |-> "Unresolved"]

\* ---- claims about EnergyLevel -----------------------------------------------
\* the parts handed to EnergyLevel are stored and the accessors return them
StoresParts ==
    /\ op = "EnergyLevel" =>
        /\ exc = "none"
        /\ level.electronConfiguration = arg.electronConfiguration
        /\ level.termSymbol = arg.termSymbol
    /\ op = "EnergyLevel.configuration" => (exc = "none" /\ ret = cfg)
    /\ op = "EnergyLevel.term" => (exc = "none" /\ ret = term)

\* C17: EnergyLevel(configuration, term) stores the two parts, the accessors
\* return them, and str(level) is the configuration's notation, one space and
\* the term's notation; for the empty configuration it starts with the space.
C17_EnergyLevel ==
    /\ StoresParts
    /\ op = "EnergyLevel.__str__" =>
        /\ exc = "none"
        /\ ret.kind = "str"
        /\ Len(ret.chars) > Len(joined(cfg.subshells))
        /\ SubSeq(ret.chars, 1, Len(joined(cfg.subshells)) + 1)
             = joined(cfg.subshells) \o <<" ">>

\* ---- the notation-table specification ----------------------------------------
lowercase == <<"a", "b", "c", "d", "e", "f", "g", "h", "i", "j", "k", "l", "m",
               "n", "o", "p", "q", "r", "s", "t", "u", "v", "w", "x", "y", "z">>
uppercase == <<"A", "B", "C", "D", "E", "F", "G", "H", "I", "J", "K", "L", "M",
               "N", "O", "P", "Q", "R", "S", "T", "U", "V", "W", "X", "Y", "Z">>

IndexInputs == (-MaxIndex)..MaxIndex
LetterInputs == Range(lowercase) \cup Range(uppercase)

\* subshellsDf['sym'][k]
LookupSym ==
    /\ op = "start"
    /\ \E k \in IndexInputs :
         LET r == subshellsDf_sym(k)
         IN  /\ op' = "subshellsDf.sym"
             /\ arg' = PyInt(k)
             /\ ret' = IF r.exc = "none" THEN PyStr(<<r.val>>) ELSE None
             /\ exc' = r.exc
    /\ UNCHANGED <<sub, cfg, term, level>>

\* subshellsDf['l'][letter]
LookupL ==
    /\ op = "start"
    /\ \E c \in LetterInputs :
         LET r == subshellsDf_l(PyStr(<<c>>))
         IN  /\ op' = "subshellsDf.l"
             /\ arg' = PyStr(<<c>>)
             /\ ret' = r.val
             /\ exc' = r.exc
    /\ UNCHANGED <<sub, cfg, term, level>>

\* xrayShellsDf['n'][letter]
LookupN ==
    /\ op = "start"
    /\ \E c \in LetterInputs :
         LET r == xrayShellsDf_n(PyStr(<<c>>))
         IN  /\ op' = "xrayShellsDf.n"
             /\ arg' = PyStr(<<c>>)
             /\ ret' = r.val
             /\ exc' = r.exc
    /\ UNCHANGED <<sub, cfg, term, level>>

\* xrayNotation[n - 1]
LookupShell ==
    /\ op = "start"
    /\ \E n \in IndexInputs :
         LET r == xrayNotation_at(n)
         IN  /\ op' = "xrayNotation"
             /\ arg' = PyInt(n)
             /\ ret' = IF r.exc = "none" THEN PyStr(<<r.val>>) ELSE None
             /\ exc' = r.exc
    /\ UNCHANGED <<sub, cfg, term, level>>

\* the key of the first lookup and the result handed to the second
Chain(first, key) == [kind |-> "chain", first |-> first, key |-> key]

\* subshellsDf['l'][subshellsDf['sym'][k]]
SymThenL ==
    /\ op = "subshellsDf.sym"
    /\ exc = "none"
    /\ LET r == subshellsDf_l(ret)
       IN  /\ op' = "subshellsDf.sym.l"
           /\ arg' = Chain(arg, ret)
           /\ ret' = r.val
           /\ exc' = r.exc
    /\ UNCHANGED <<sub, cfg, term, level>>

\* subshellsDf['sym'][subshellsDf['l'][letter]]
LThenSym ==
    /\ op = "subshellsDf.l"
    /\ exc = "none"
    /\ LET r == subshellsDf_sym(ret.val)
       IN  /\ op' = "subshellsDf.l.sym"
           /\ arg' = Chain(arg, ret)
           /\ ret' = IF r.exc = "none" THEN PyStr(<<r.val>>) ELSE None
           /\ exc' = r.exc
    /\ UNCHANGED <<sub, cfg, term, level>>

\* xrayNotation[xrayShellsDf['n'][letter] - 1]
NThenShell ==
    /\ op = "xrayShellsDf.n"
    /\ exc = "none"
    /\ LET r == xrayNotation_at(ret.val)
       IN  /\ op' = "xrayShellsDf.n.xrayNotation"
           /\ arg' = Chain(arg, ret)
           /\ ret' = IF r.exc = "none" THEN PyStr(<<r.val>>) ELSE None
           /\ exc' = r.exc
    /\ UNCHANGED <<sub, cfg, term, level>>

\* xrayShellsDf['n'][xrayNotation[n - 1]]
ShellThenN ==
    /\ op = "xrayNotation"
    /\ exc = "none"
    /\ LET r == xrayShellsDf_n(ret)
       IN  /\ op' = "xrayNotation.xrayShellsDf.n"
           /\ arg' = Chain(arg, ret)
           /\ ret' = r.val
           /\ exc' = r.exc
    /\ UNCHANGED <<sub, cfg, term, level>>

NextTables ==
    \/ LookupSym
    \/ LookupL
    \/ LookupN
    \/ LookupShell
    \/ SymThenL
    \/ LThenSym
    \/ NThenShell
    \/ ShellThenN

SpecTables == Init /\ [][NextTables]_vars

\* ---- claims about the notation tables ---------------------------------------
NotFound == {"KeyError", "IndexError"}

Injective(s) == \A i, j \in 1..Len(s) : s[i] = s[j] => i = j

\* the lookups answer as the tables pair letters and numbers
LookupsInTable ==
    /\ (op = "subshellsDf.sym" /\ arg.val \in 0..(Len(symbols) - 1))
         => (exc = "none" /\ ret = PyStr(<<symbols[arg.val + 1]>>))
    /\ (op = "xrayNotation" /\ arg.val \in 1..Len(xrayNotation))
         => (exc = "none" /\ ret = PyStr(<<xrayNotation[arg.val]>>))
    /\ (op = "subshellsDf.l" /\ arg.chars[1] \in Range(symbols))
         => (exc = "none" /\ ret = PyInt(IndexOf(symbols, arg.chars[1]) - 1))
    /\ (op = "xrayShellsDf.n" /\ arg.chars[1] \in Range(xrayNotation))
         => (exc = "none" /\ ret = PyInt(IndexOf(xrayNotation, arg.chars[1])))

\* a lookup followed by the opposite lookup returns the first key
LookupsInvert ==
    /\ (op = "subshellsDf.sym.l" /\ arg.first.val \in 0..(Len(symbols) - 1))
         => (exc = "none" /\ ret = arg.first)
    /\ (op = "xrayNotation.xrayShellsDf.n"
          /\ arg.first.val \in 1..Len(xrayNotation))
         => (exc = "none" /\ ret = arg.first)
    /\ op \in {"subshellsDf.l.sym", "xrayShellsDf.n.xrayNotation"}
         => (exc = "none" /\ ret = arg.first)

\* a letter that is in no table is not found
LetterOutsideFails ==
    /\ (op = "subshellsDf.l" /\ arg.chars[1] \notin Range(symbols))
         => exc \in NotFound
    /\ (op = "xrayShellsDf.n" /\ arg.chars[1] \notin Range(xrayNotation))
         => exc \in NotFound

\* an index that is in no table is not found
IndexOutsideFails ==
    /\ (op = "subshellsDf.sym" /\ arg.val \notin 0..(Len(symbols) - 1))
         => exc \in NotFound
    /\ (op = "xrayNotation" /\ arg.val \notin 1..Len(xrayNotation))
         => exc \in NotFound

\* C18: the tables pair 21 subshell letters with 0..20 and the shell letters
\* with 1.., no letter twice; a lookup followed by the opposite lookup returns
\* the original; a lookup by an index or letter outside the table fails.
C18_Tables ==
    /\ Len(symbols) = 21
    /\ SubSeq(symbols, 1, 5) = <<"s", "p", "d", "f", "g">>
    /\ SubSeq(xrayNotation, 1, 2) = <<"K", "L">>
    /\ Injective(symbols)
    /\ Injective(xrayNotation)
    /\ LookupsInTable
    /\ LookupsInvert
    /\ LetterOutsideFails
    /\ IndexOutsideFails

\* the part of C18 the code keeps: everything but the failure of an index
\* below the table, which counts from the end instead
TablesExceptBelow ==
    /\ Injective(symbols)
    /\ Injective(xrayNotation)
    /\ LookupsInTable
    /\ LookupsInvert
    /\ LetterOutsideFails
    /\ (op = "subshellsDf.sym" /\ arg.val >= Len(symbols)) => exc \in NotFound
    /\ (op = "xrayNotation" /\ arg.val > Len(xrayNotation)) => exc \in NotFound

\* ---- all value types together ------------------------------------------------
\* ElectronConfiguration([sub]) and ElectronConfiguration([sub, sub]) of the
\* subshell constructed before
ConfigurationOfSubshell ==
    /\ op = "SubshellConfiguration"
    /\ sub \in SubshellObjects
    /\ \E subshells \in {<<sub>>, <<sub, sub>>}, container \in Containers :
        LET r == ElectronConfiguration_init(subshells, container)
        IN  /\ op' = "ElectronConfiguration"
            /\ arg' = [kind |-> "list", items |-> subshells]
            /\ cfg' = r.val
            /\ ret' = r.val
            /\ exc' = r.exc
    /\ UNCHANGED <<sub, term, level>>

NextAll ==
    \/ NextSubshell
    \/ ConfigurationOfSubshell
    \/ Next
    \/ NextTables

SpecAll == Init /\ [][NextAll]_vars

\* a step leaves every value that exists as it is
Kept ==
    /\ sub # None => sub' = sub
    /\ cfg # None => cfg' = cfg
    /\ term # None => term' = term
    /\ level # None => level' = level

\* the calls that construct a value
Creating ==
    {"SubshellConfiguration", "ElectronConfiguration",
     "ElectronConfiguration.empty", "TermSymbol", "EnergyLevel"}

PyFloat(num, scale) == [kind |-> "float", num |-> num, scale |-> scale]

RECURSIVE normalized(_, _)
normalized(num, scale) ==
    IF scale > 0 /\ num % 10 = 0 THEN normalized(num \div 10, scale - 1)
    ELSE PyFloat(num, scale)

\* s.strip(): leading and trailing blanks removed
RECURSIVE strip(_)
strip(s) ==
    IF Len(s) = 0 THEN s
    ELSE IF s[1] = " " THEN strip(Tail(s))
    ELSE IF s[Len(s)] = " " THEN strip(SubSeq(s, 1, Len(s) - 1))
    ELSE s

\* re.sub('<.*?>', '', raw_html): each '<' up to the nearest following '>'
\* is removed, a '<' with no '>' after it is kept
RECURSIVE cleanhtml(_)
cleanhtml(raw_html) ==
    IF Len(raw_html) = 0 THEN raw_html
    ELSE LET closing == {j \in 2..Len(raw_html) : raw_html[j] = ">"}
         IN  IF raw_html[1] = "<" /\ closing # {}
             THEN LET j == CHOOSE k \in closing : \A m \in closing : k <= m
                  IN  cleanhtml(SubSeq(raw_html, j + 1, Len(raw_html)))
             ELSE <<raw_html[1]>> \o cleanhtml(Tail(raw_html))

\* float(s) of a string: blanks around the number are ignored; the number is
\* decimal digits with at most one point and at least one digit; anything
\* else raises ValueError
float(s) ==
    LET t == strip(s)
        points == {i \in 1..Len(t) : t[i] = "."}
        whole == IF points = {} THEN t
                 ELSE SubSeq(t, 1, (CHOOSE i \in points : TRUE) - 1)
        frac == IF points = {} THEN <<>>
                ELSE SubSeq(t, (CHOOSE i \in points : TRUE) + 1, Len(t))
    IN  IF /\ \A i \in 1..Len(t) : t[i] \in Range(decimal) \cup {"."}
           /\ Cardinality(points) <= 1
           /\ Len(whole) + Len(frac) >= 1
        THEN Return(normalized(value(whole \o frac, decimal), Len(frac)))
        ELSE Raise("ValueError")

\* value * u.eV
Quantity(v) == [kind |-> "Quantity", value |-> v, unit |-> "eV"]

\* lev.element(element).atomic_number of the elements looked up
atomic_number == [e \in {<<"H">>, <<"H", "e">>} |-> IF e = <<"H">> THEN 1 ELSE 2]

\* isinstance(chargeState, (int, np.int64)): bool is a subclass of int
isInteger(x) == x.kind \in {"int", "bool"}

\* the number a Python int or bool compares as
number(x) == IF x.kind = "bool" THEN (IF x.val THEN 1 ELSE 0) ELSE x.val

\* the outcome of the call and whether the query was sent and its answer read
Queried(r) == [exc |-> r.exc, val |-> r.val, posted |-> TRUE]
Rejected(e) == [exc |-> e, val |-> None, posted |-> FALSE]

\* the parsing of the answer, with the slice [1:-1] applied to measured
\* values as well
parseRow_slicesAll(response) ==
    IF response.kind = "noTable" THEN Raise("TypeError")
    ELSE IF response.kind = "noRow" THEN Raise("IndexError")
    ELSE LET ionEnergyHTML == strip(response.ionEnergyHTML)
             uncertainty == strip(response.uncertainty)
             ionEnergyStrip == cleanhtml(ionEnergyHTML)
             inner == SubSeq(ionEnergyStrip, 2, Len(ionEnergyStrip) - 1)
         IN  IF Len(ionEnergyStrip) = 0 THEN Raise("IndexError")
             ELSE IF ionEnergyStrip[1] \notin Range(decimal) \cup {"[", "("}
             THEN Raise("Exception")
             ELSE LET energyType ==
                          IF ionEnergyStrip[1] \in Range(decimal) THEN "Measured"
                          ELSE IF ionEnergyStrip[1] = "["
                          THEN "Interpolated/extrapolated"
                          ELSE "Theoretical"
                      ionEnergyStr == inner
                      ionEnergy == float(ionEnergyStr)
                      ionEnergyUnc == float(uncertainty)
                  IN  IF ionEnergy.exc # "none" THEN ionEnergy
                      ELSE IF ionEnergyUnc.exc # "none" THEN ionEnergyUnc
                      ELSE Return([kind |-> "tuple",
                                   ionEnergy |-> Quantity(ionEnergy.val),
                                   ionEnergyUnc |-> Quantity(ionEnergyUnc.val),
                                   energyType |-> energyType])

\* the parsing of the answer: the table, the row of the charge state, its
\* entries stripped, the energy entry cleaned of tags, classified by its
\* first character and converted
parseRow(response) ==
    IF response.kind = "noTable" THEN Raise("TypeError")
    ELSE IF response.kind = "noRow" THEN Raise("IndexError")
    ELSE LET ionEnergyHTML == strip(response.ionEnergyHTML)
             uncertainty == strip(response.uncertainty)
             ionEnergyStrip == cleanhtml(ionEnergyHTML)
             inner == SubSeq(ionEnergyStrip, 2, Len(ionEnergyStrip) - 1)
         IN  IF Len(ionEnergyStrip) = 0 THEN Raise("IndexError")
             ELSE IF ionEnergyStrip[1] \notin Range(decimal) \cup {"[", "("}
             THEN Raise("Exception")
             ELSE LET energyType ==
                          IF ionEnergyStrip[1] \in Range(decimal) THEN "Measured"
                          ELSE IF ionEnergyStrip[1] = "["
                          THEN "Interpolated/extrapolated"
                          ELSE "Theoretical"
                      ionEnergyStr ==
                          IF ionEnergyStrip[1] \in Range(decimal)
                          THEN ionEnergyStrip ELSE inner
                      ionEnergy == float(ionEnergyStr)
                      ionEnergyUnc == float(uncertainty)
                  IN  IF ionEnergy.exc # "none" THEN ionEnergy
                      ELSE IF ionEnergyUnc.exc # "none" THEN ionEnergyUnc
                      ELSE Return([kind |-> "tuple",
                                   ionEnergy |-> Quantity(ionEnergy.val),
                                   ionEnergyUnc |-> Quantity(ionEnergyUnc.val),
                                   energyType |-> energyType])

\* nistIonEnergyQuery(element, chargeState); response is the answer of the
\* service, read only when the inputs pass the three tests
nistIonEnergyQuery(element, chargeState, response) ==
    IF element.kind # "str" THEN Rejected("ValueError")
    ELSE IF ~isInteger(chargeState) THEN Rejected("ValueError")
    ELSE LET atomicNum == atomic_number[element.chars]
         IN  IF number(chargeState) > (atomicNum - 1) THEN Rejected("Exception")
             ELSE Queried(parseRow(response))

\* ---- the query specification ---------------------------------------------------
ElementInputs == {PyStr(<<"H">>), PyStr(<<"H", "e">>), PyInt(1), None}

ChargeInputs ==
    {PyInt(i) : i \in 0..2}
    \cup {PyBool(TRUE), PyFloat(1, 0), PyStr(<<"1">>), None}

TextChars == {"1", ".", "[", "]", "(", ")", "<", ">", " "}

Texts == UNION {[1..len -> TextChars] : len \in 0..MaxTextLen}

UncertaintyInputs == {<<"0", ".", "0", "1", "2">>, <<>>}

Responses ==
    {[kind |-> "noTable"], [kind |-> "noRow"]}
    \cup {[kind |-> "row", ionEnergyHTML |-> t, uncertainty |-> unc] :
            t \in Texts, unc \in UncertaintyInputs}

\* nistIonEnergyQuery(element, chargeState) with the answer the service gives
Query ==
    /\ op = "start"
    /\ \E element \in ElementInputs, chargeState \in ChargeInputs :
         LET passes == nistIonEnergyQuery(element, chargeState,
                                          [kind |-> "noTable"]).posted
         IN  \E response \in IF passes THEN Responses ELSE {None} :
               LET r == nistIonEnergyQuery(element, chargeState, response)
               IN  /\ op' = "nistIonEnergyQuery"
                   /\ arg' = [kind |-> "query", element |-> element,
                              chargeState |-> chargeState,
                              response |-> response, posted |-> r.posted]
                   /\ ret' = r.val
                   /\ exc' = r.exc
    /\ UNCHANGED <<sub, cfg, term, level>>

NextNist == Query

SpecNist == Init /\ [][NextNist]_vars

\* ---- claims about nistIonEnergyQuery -------------------------------------------
\* the inputs the three tests turn away
BadInputs(q) ==
    \/ q.element.kind # "str"
    \/ q.chargeState.kind \notin {"int", "bool"}
    \/ number(q.chargeState) > atomic_number[q.element.chars] - 1

\* the energy entry of the row read, blanks and tags removed
EnergyText(q) == cleanhtml(strip(q.response.ionEnergyHTML))

Bracketed(t, open, close) ==
    Len(t) >= 2 /\ t[1] = open /\ t[Len(t)] = close

\* C20: a non-string element, a non-integer charge state or a charge state
\* above atomic number - 1 is rejected before the answer is read; a result has
\* type Measured with the text as value when the text starts with a digit,
\* Interpolated/extrapolated when it starts with [ and Theoretical when it
\* starts with (, the value converted from the text between the brackets;
\* any other first character raises and returns nothing.
C20_Query ==
    op = "nistIonEnergyQuery" =>
        /\ BadInputs(arg) => (exc # "none" /\ ~arg.posted /\ ret = None)
        /\ ~BadInputs(arg) => arg.posted
        /\ (arg.posted /\ arg.response.kind = "row" /\ Len(EnergyText(arg)) > 0) =>
            LET t == EnergyText(arg)
                unc == float(arg.response.uncertainty)
                type == IF t[1] \in Range(decimal) THEN "Measured"
                        ELSE IF t[1] = "[" THEN "Interpolated/extrapolated"
                        ELSE "Theoretical"
                measured == float(t)
                between == float(SubSeq(t, 2, Len(t) - 1))
            IN  /\ t[1] \notin Range(decimal) \cup {"[", "("}
                     => (exc # "none" /\ ret = None)
                /\ exc = "none" =>
                     /\ ret.energyType = type
                     /\ ret.ionEnergyUnc = Quantity(unc.val)
                     /\ t[1] \in Range(decimal)
                          => ret.ionEnergy = Quantity(measured.val)
                     /\ (Bracketed(t, "[", "]") \/ Bracketed(t, "(", ")"))
                          => ret.ionEnergy = Quantity(between.val)
                /\ (t[1] \in Range(decimal) /\ measured.exc = "none"
                      /\ unc.exc = "none") => exc = "none"
                /\ ((Bracketed(t, "[", "]") \/ Bracketed(t, "(", ")"))
                      /\ between.exc = "none" /\ unc.exc = "none")
                     => exc = "none"

\* an interpolated value read from a bracketed entry inside a tag
C20_Witness ==
    /\ op = "nistIonEnergyQuery"
    /\ exc = "none"
    /\ arg.response.ionEnergyHTML = <<"[", ".", "1", "]">>
    /\ ret.energyType = "Interpolated/extrapolated"
    /\ ret.ionEnergy = Quantity(PyFloat(1, 1))
    /\ ret.ionEnergyUnc = Quantity(PyFloat(12, 3))
====
